---------------------------- MODULE Spec2Model ----------------------------
(***************************************************************************)
(* Line-aligned chunking of a text file (src/src/main.rs).                 *)
(*                                                                         *)
(* The model follows main()'s read loop: a block of at most bufsize bytes  *)
(* is read, find_last_line_ending trims the append point, the accumulated  *)
(* chunk is cut when it has reached chunk_size, the deferred tail of the   *)
(* block is appended, and a zero-byte read flushes what is left.           *)
(*                                                                         *)
(* Bytes are integers 0..255, decoded text is a sequence of Unicode code   *)
(* points.  The encoding is UTF_8 (the default of Config::from_args, line  *)
(* 80); Encoding::decode is modelled with its BOM sniffing and its         *)
(* replacement of malformed sequences by U+FFFD.  Under GBK the model reads *)
(* ASCII inputs only, which GBK and UTF-8 decode and encode alike.          *)
(*                                                                         *)
(* Strings (arguments, line endings, file names) are sequences of code     *)
(* points; the arguments enumerated are ASCII.                              *)
(***************************************************************************)
EXTENDS Integers, Sequences, FiniteSets, TLC

VARIABLES input, line_ending, chunk_size, bufsize,
          args, output_prefix, encoding,
          pos, current_chunk, chunk_number, last_newline_pos, total_bytes,
          pc, emit_log

vars == <<input, line_ending, chunk_size, bufsize,
          args, output_prefix, encoding,
          pos, current_chunk, chunk_number, last_newline_pos, total_bytes,
          pc, emit_log>>

config == <<input, line_ending, chunk_size, bufsize,
            args, output_prefix, encoding>>

(***************************************************************************)
(* Program constants.                                                      *)
(***************************************************************************)
BUFFER_SIZE == 8388608

REPLACEMENT == 65533

None == -1

(***************************************************************************)
(* Bounds of the model.                                                    *)
(***************************************************************************)
MaxLen == 3

MaxBlock == 2

MaxThreshold == 2

\* the lines of the inputs that make a run of more than 999 chunks
ManyLines == 1000

(***************************************************************************)
(* Bytes the enumerated inputs are made of: LF, CR, 'a', and the two bytes *)
(* of U+00E9 (0xC3 0xA9), each of which is malformed on its own.           *)
(***************************************************************************)
LF == <<10>>

CR == <<13>>

CRLF == <<13, 10>>

DEFAULT_LINE_ENDING == LF

Alphabet == {10, 13, 97, 195, 169}

Repeat(b, k) == [i \in 1..k |-> b]

\* "a\n" + "b"*200 + "\n" + "c\n"
ScenarioInput == <<97, 10>> \o Repeat(98, 200) \o <<10, 99, 10>>

\* "x\ny"
UnterminatedInput == <<120, 10, 121>>

\* a UTF-8 file with a byte order mark, and a UTF-16LE one
BomInput == <<239, 187, 191, 97, 10, 97, 10, 97, 97, 97, 10, 97>>

Utf16Input == <<255, 254, 97, 0, 10, 0, 97, 0>>

SeqsUpTo(S, k) == UNION {[1..m -> S] : m \in 0..k}

\* "a\u{e9}\na\n" and "a\r\na\r\na"
AccentInput == <<97, 195, 169, 10, 97, 10>>

CrlfInput == <<97, 13, 10, 97, 13, 10, 97>>

Inputs == SeqsUpTo(Alphabet, MaxLen)
            \cup {UnterminatedInput, AccentInput, CrlfInput}

LongInputs == {ScenarioInput, BomInput, Utf16Input}

ManyLineInputs == {Repeat(10, ManyLines), Repeat(10, ManyLines) \o <<97>>}

\* "out"
DefaultPrefix == <<111, 117, 116>>

LineEndings == {LF, CRLF, CR}

BlockSizes == (1..MaxBlock) \cup {BUFFER_SIZE}

\* the thresholds tried, and the 100 bytes of the three-line scenario
Thresholds == (0..MaxThreshold) \cup {100}

Min(a, b) == IF a < b THEN a ELSE b

(***************************************************************************)
(* Encoding::decode for UTF_8.  Utf8Unit is what the decoder makes of the  *)
(* bytes from position i on when it is between two characters there: the   *)
(* code point it emits and the number of bytes it consumes.  A lead byte    *)
(* whose continuation is missing or out of range gives U+FFFD for the bytes *)
(* consumed so far; the offending byte is decoded again on its own.         *)
(***************************************************************************)
IsCont(b) == b >= 128 /\ b <= 191

ByteAt(data, i) == IF i <= Len(data) THEN data[i] ELSE None

Utf8Unit(data, i) ==
    LET b  == data[i]
        b2 == ByteAt(data, i + 1)
        b3 == ByteAt(data, i + 2)
        b4 == ByteAt(data, i + 3)
        bad(k) == [cp |-> REPLACEMENT, len |-> k]
    IN  IF b <= 127 THEN [cp |-> b, len |-> 1]
        ELSE IF b >= 194 /\ b <= 223
        THEN IF IsCont(b2)
             THEN [cp |-> (b - 192) * 64 + (b2 - 128), len |-> 2]
             ELSE bad(1)
        ELSE IF b >= 224 /\ b <= 239
        THEN LET lower == IF b = 224 THEN 160 ELSE 128
                 upper == IF b = 237 THEN 159 ELSE 191
             IN  IF b2 < lower \/ b2 > upper THEN bad(1)
                 ELSE IF ~IsCont(b3) THEN bad(2)
                 ELSE [cp |-> (b - 224) * 4096 + (b2 - 128) * 64 + (b3 - 128),
                       len |-> 3]
        ELSE IF b >= 240 /\ b <= 244
        THEN LET lower == IF b = 240 THEN 144 ELSE 128
                 upper == IF b = 244 THEN 143 ELSE 191
             IN  IF b2 < lower \/ b2 > upper THEN bad(1)
                 ELSE IF ~IsCont(b3) THEN bad(2)
                 ELSE IF ~IsCont(b4) THEN bad(3)
                 ELSE [cp |-> (b - 240) * 262144 + (b2 - 128) * 4096
                                + (b3 - 128) * 64 + (b4 - 128),
                       len |-> 4]
        ELSE bad(1)

\* The decoder is between two characters at position i of data, decoding
\* having begun at position from: every byte that is no continuation byte
\* starts a character or an error, and a continuation byte does unless the
\* nearest such byte before it is a lead byte whose sequence reaches it.
Utf8Start(data, from, i) ==
    \/ ~IsCont(data[i])
    \/ LET before == {j \in from..(i - 1) : j >= i - 3 /\ ~IsCont(data[j])}
       IN  \/ before = {}
           \/ LET j == CHOOSE x \in before : \A y \in before : y <= x
              IN  j + Utf8Unit(data, j).len <= i

\* The code points decoded from data[lo..hi], decoding having begun at from.
RECURSIVE Utf8Decode(_, _, _, _)
Utf8Decode(data, from, lo, hi) ==
    IF lo > hi THEN <<>>
    ELSE IF lo = hi
    THEN IF Utf8Start(data, from, lo) THEN <<Utf8Unit(data, lo).cp>> ELSE <<>>
    ELSE LET mid == (lo + hi) \div 2
         IN  Utf8Decode(data, from, lo, mid) \o Utf8Decode(data, from, mid + 1, hi)

(***************************************************************************)
(* The UTF-16 decoder a byte order mark switches to.  Code unit k is made   *)
(* of the bytes at from + 2k and from + 2k + 1; a lead surrogate followed   *)
(* by a trail surrogate is one character, any other surrogate and a single  *)
(* last byte are U+FFFD.                                                    *)
(***************************************************************************)
IsLead(cu) == cu >= 55296 /\ cu <= 56319

IsTrail(cu) == cu >= 56320 /\ cu <= 57343

CodeUnit(data, be, i) ==
    IF i < 1 \/ i + 1 > Len(data) THEN None
    ELSE IF be THEN data[i] * 256 + data[i + 1]
    ELSE data[i + 1] * 256 + data[i]

\* What the code unit at bytes i, i + 1 contributes to the decoded text.
Utf16Unit(data, from, be, i) ==
    LET cu   == CodeUnit(data, be, i)
        prev == IF i - 2 >= from THEN CodeUnit(data, be, i - 2) ELSE None
        next == CodeUnit(data, be, i + 2)
    IN  IF cu = None THEN <<REPLACEMENT>>
        ELSE IF IsLead(cu)
        THEN IF IsTrail(next)
             THEN <<65536 + (cu - 55296) * 1024 + (next - 56320)>>
             ELSE IF i + 2 = Len(data) THEN <<>>
             ELSE <<REPLACEMENT>>
        ELSE IF IsTrail(cu)
        THEN IF IsLead(prev) THEN <<>> ELSE <<REPLACEMENT>>
        ELSE <<cu>>

\* The code points decoded from code units lo..hi (counted from 0 at from).
RECURSIVE Utf16Decode(_, _, _, _, _)
Utf16Decode(data, from, be, lo, hi) ==
    IF lo > hi THEN <<>>
    ELSE IF lo = hi THEN Utf16Unit(data, from, be, from + 2 * lo)
    ELSE LET mid == (lo + hi) \div 2
         IN  Utf16Decode(data, from, be, lo, mid)
               \o Utf16Decode(data, from, be, mid + 1, hi)

HasPrefix(data, p) == Len(data) >= Len(p) /\ SubSeq(data, 1, Len(p)) = p

\* Encoding::decode: BOM sniffing, then decoding without the BOM.
Decode(data) ==
    LET utf16(be) == Utf16Decode(data, 3, be, 0, (Len(data) - 1) \div 2 - 1)
    IN  IF HasPrefix(data, <<239, 187, 191>>)
        THEN Utf8Decode(data, 4, 4, Len(data))
        ELSE IF HasPrefix(data, <<255, 254>>) THEN utf16(FALSE)
        ELSE IF HasPrefix(data, <<254, 255>>) THEN utf16(TRUE)
        ELSE Utf8Decode(data, 1, 1, Len(data))

\* The number of bytes of one code point in UTF-8.
Utf8Len(cp) == IF cp < 128 THEN 1 ELSE IF cp < 2048 THEN 2
               ELSE IF cp < 65536 THEN 3 ELSE 4

\* The UTF-8 length of characters lo..hi of a text.
RECURSIVE LenOfRange(_, _, _)
LenOfRange(text, lo, hi) ==
    IF lo > hi THEN 0
    ELSE IF lo = hi THEN Utf8Len(text[lo])
    ELSE LET mid == (lo + hi) \div 2
         IN  LenOfRange(text, lo, mid) + LenOfRange(text, mid + 1, hi)

\* encoding.encode(text).0.len(), and str::len(): the UTF-8 length of a text.
EncodedLen(text) == LenOfRange(text, 1, Len(text))

\* The text has an occurrence of pat starting after its first k characters.
MatchAt(text, pat, k) ==
    /\ k + Len(pat) <= Len(text)
    /\ SubSeq(text, k + 1, k + Len(pat)) = pat

\* RFind as str::find: the leftmost occurrence instead of the rightmost.
Find(text, pat) ==
    LET starts == {k \in 0..Len(text) : MatchAt(text, pat, k)}
    IN  IF starts = {} THEN None
        ELSE CHOOSE k \in starts : \A j \in starts : k <= j

\* str::rfind: the number of characters before the rightmost occurrence.
RFind(text, pat) ==
    LET starts == {k \in 0..Len(text) : MatchAt(text, pat, k)}
    IN  IF starts = {} THEN None
        ELSE CHOOSE k \in starts : \A j \in starts : j <= k

\* find_last_line_ending returning the offset after the occurrence found.
find_last_line_ending_end(data, le) ==
    IF data = <<>> THEN None
    ELSE LET decoded  == Decode(data)
             last_pos == RFind(decoded, le)
         IN  IF last_pos = None THEN None
             ELSE EncodedLen(SubSeq(decoded, 1, last_pos + Len(le)))

\* lines 93-115: the byte offset at which the last line ending starts
find_last_line_ending(data, le) ==
    IF data = <<>> THEN None
    ELSE LET decoded  == Decode(data)
             last_pos == RFind(decoded, le)
         IN  IF last_pos = None THEN None
             ELSE EncodedLen(SubSeq(decoded, 1, last_pos))

(***************************************************************************)
(* One turn of main()'s loop (lines 158-206).  The values the turn         *)
(* computes are definitions over the state before the turn.                *)
(***************************************************************************)
\* line 160: the bytes read, at most bufsize of what is left of the input
n == Min(bufsize, Len(input) - pos)

buffer == SubSeq(input, pos + 1, pos + n)

\* str::len() of the configured line ending
LineEndingLen == EncodedLen(line_ending)

\* lines 167-172: the append point within the block
end_pos ==
    LET last_pos == find_last_line_ending(SubSeq(buffer, 1, n), line_ending)
    IN  IF last_pos # None THEN last_pos + LineEndingLen ELSE n

\* line 175: the chunk after the append
Appended == current_chunk \o SubSeq(buffer, 1, end_pos)

\* line 180: the locator's result over the chunk from last_newline_pos on
CutFound ==
    find_last_line_ending(
        SubSeq(Appended, last_newline_pos + 1, Len(Appended)), line_ending)

\* ThresholdReached counting the whole block read, not the bytes appended.
ThresholdReachedOnRead == Len(current_chunk) + Len(buffer) >= chunk_size

\* line 179: the threshold check
ThresholdReached == Len(Appended) >= chunk_size

\* split_pos without the length of the line ending.
split_pos_start == last_newline_pos + CutFound

\* line 181
split_pos == last_newline_pos + CutFound + LineEndingLen

\* Deferred with lines 196-198 left out.
DeferredDropped == <<>>

\* lines 196-198: the deferred rest of the block
Deferred == SubSeq(buffer, end_pos + 1, Len(buffer))

\* NextChunkNumber with the increment of line 191 left out.
NextChunkNumberStuck == chunk_number

\* line 191
NextChunkNumber == chunk_number + 1

\* FlushData with the cut of lines 180-184 applied to the last chunk too.
FlushDataTrimmed ==
    LET last_pos == find_last_line_ending(current_chunk, line_ending)
        cut == Min(last_pos + LineEndingLen, Len(current_chunk))
    IN  IF last_pos = None THEN current_chunk ELSE SubSeq(current_chunk, 1, cut)

\* line 203: what the end-of-stream flush hands to the emitter
FlushData == current_chunk

\* FlushDue without the test for an empty chunk.
FlushDueAlways == n = 0

\* line 202: the end-of-stream flush is due
FlushDue == n = 0 /\ current_chunk # <<>>

\* Continues with the error of the emitter ignored.
ContinuesAlways(ok) == TRUE

\* the ? of lines 184 and 203: the run goes on only after Ok(())
Continues(ok) == ok

\* line 210: the number of chunks the statistics report
ReportedChunks == chunk_number

\* line 211: the amount of data the statistics report, in bytes
ReportedBytes == total_bytes

\* The decimal digits of k.
RECURSIVE Digits(_)
Digits(k) == IF k < 10 THEN <<48 + k>> ELSE Digits(k \div 10) \o <<48 + (k % 10)>>

\* {:03}: the digits of k, padded with zeros to at least three characters
Pad3(k) == LET d == Digits(k) IN [i \in 1..(3 - Len(d)) |-> 48] \o d

\* line 119: format!("{}.{:03}.zst", output_prefix, chunk_number)
OutputName(prefix, k) == prefix \o <<46>> \o Pad3(k) \o <<46, 122, 115, 116>>

\* The record of one call of write_compressed_chunk: its arguments, its
\* result, and where it was called from with which accumulated chunk.
EmitCall(data, by, ok) ==
    [index |-> chunk_number, data |-> data, by |-> by,
     name |-> OutputName(output_prefix, chunk_number),
     acc |-> IF by = "cut" THEN Appended ELSE current_chunk, ok |-> ok]

\* lines 117-130: Ok(()) when compression and the write succeed, Err otherwise
write_compressed_chunk(data, by, ok) ==
    emit_log' = Append(emit_log, EmitCall(data, by, ok))

\* lines 152-156: the loop's variables before the first turn
Fresh ==
    /\ pos = 0
    /\ current_chunk = <<>>
    /\ chunk_number = 1
    /\ last_newline_pos = 0
    /\ total_bytes = 0
    /\ pc = "loop"
    /\ emit_log = <<>>

\* Every enumerated input is read in blocks of every size; the longer ones
\* are read with the program's BUFFER_SIZE.
Init ==
    /\ \/ input \in Inputs /\ bufsize \in BlockSizes
       \/ input \in LongInputs /\ bufsize = BUFFER_SIZE
    /\ line_ending \in LineEndings
    /\ chunk_size \in Thresholds
    /\ args = <<>>
    /\ output_prefix = DefaultPrefix
    /\ encoding = "UTF-8"
    /\ Fresh

\* The same with the inputs of many one-byte lines, read byte by byte and cut
\* at every line: runs of more than 999 chunks.
InitLong ==
    \/ Init
    \/ /\ input \in ManyLineInputs
       /\ bufsize = 1
       /\ line_ending = LF
       /\ chunk_size = 0
       /\ args = <<>>
       /\ output_prefix = DefaultPrefix
       /\ encoding = "UTF-8"
       /\ Fresh

\* line 160: read_to_end fails and the ? returns its error from main; what
\* was accumulated is not emitted
ReadError ==
    /\ pc = "loop"
    /\ pc' = "failed"
    /\ UNCHANGED <<config, pos, current_chunk, chunk_number, last_newline_pos,
                   total_bytes, emit_log>>

\* lines 161-163: nothing read and nothing accumulated
LoopExit ==
    /\ pc = "loop"
    /\ n = 0
    /\ current_chunk = <<>>
    /\ pc' = "done"
    /\ UNCHANGED <<config, pos, current_chunk, chunk_number, last_newline_pos,
                   total_bytes, emit_log>>

\* line 175: &buffer[..end_pos] with end_pos past the block panics
AppendPanic ==
    /\ pc = "loop"
    /\ n > 0
    /\ end_pos > Len(buffer)
    /\ pos' = pos + n
    /\ pc' = "panic"
    /\ UNCHANGED <<config, current_chunk, chunk_number, last_newline_pos,
                   total_bytes, emit_log>>

\* lines 165-199 when no chunk is cut
BlockNoCut ==
    /\ pc = "loop"
    /\ n > 0
    /\ end_pos <= Len(buffer)
    /\ ~ThresholdReached \/ CutFound = None
    /\ pos' = pos + n
    /\ current_chunk' = Appended \o Deferred
    /\ total_bytes' = total_bytes + end_pos
    /\ UNCHANGED <<config, chunk_number, last_newline_pos, pc, emit_log>>

\* line 184: &current_chunk[..split_pos] with split_pos past the chunk panics
CutPanic ==
    /\ pc = "loop"
    /\ n > 0
    /\ end_pos <= Len(buffer)
    /\ ThresholdReached
    /\ CutFound # None
    /\ split_pos > Len(Appended)
    /\ pos' = pos + n
    /\ current_chunk' = Appended
    /\ total_bytes' = total_bytes + end_pos
    /\ pc' = "panic"
    /\ UNCHANGED <<config, chunk_number, last_newline_pos, emit_log>>

\* lines 165-199 when the chunk is cut at split_pos
BlockCut(ok) ==
    /\ pc = "loop"
    /\ n > 0
    /\ end_pos <= Len(buffer)
    /\ ThresholdReached
    /\ CutFound # None
    /\ split_pos <= Len(Appended)
    /\ pos' = pos + n
    /\ total_bytes' = total_bytes + end_pos
    /\ write_compressed_chunk(SubSeq(Appended, 1, split_pos), "cut", ok)
    /\ IF Continues(ok)
       THEN /\ current_chunk' =
                  SubSeq(Appended, split_pos + 1, Len(Appended)) \o Deferred
            /\ last_newline_pos' = 0
            /\ chunk_number' = NextChunkNumber
            /\ pc' = pc
       ELSE /\ current_chunk' = Appended
            /\ pc' = "failed"
            /\ UNCHANGED <<last_newline_pos, chunk_number>>
    /\ UNCHANGED config

\* lines 202-205: the end-of-stream flush
Flush(ok) ==
    /\ pc = "loop"
    /\ FlushDue
    /\ write_compressed_chunk(FlushData, "flush", ok)
    /\ pc' = IF Continues(ok) THEN "done" ELSE "failed"
    /\ UNCHANGED <<config, pos, current_chunk, chunk_number, last_newline_pos,
                   total_bytes>>

Next ==
    \/ ReadError
    \/ LoopExit
    \/ AppendPanic
    \/ BlockNoCut
    \/ CutPanic
    \/ \E ok \in BOOLEAN : BlockCut(ok)
    \/ \E ok \in BOOLEAN : Flush(ok)

Spec == Init /\ [][Next]_vars

SpecLong == InitLong /\ [][Next]_vars

(***************************************************************************)
(* Config::from_args (lines 22-90) and the start of main() (lines 136-150). *)
(* args[1] is the program's name, args[2] the input path, args[3] the       *)
(* output prefix, then the chunk size in MiB, the line ending option and    *)
(* the encoding.                                                            *)
(***************************************************************************)
DEFAULT_CHUNK_SIZE == 104857600

\* "LF", "CRLF", "CR", "CUSTOM:", "UTF-8", "GBK"
OptLF == <<76, 70>>

OptCRLF == <<67, 82, 76, 70>>

OptCR == <<67, 82>>

OptCustom == <<67, 85, 83, 84, 79, 77, 58>>

OptUtf8 == <<85, 84, 70, 45, 56>>

OptGbk == <<71, 66, 75>>

\* the two characters \n and the two characters \r
EscapedN == <<92, 110>>

EscapedR == <<92, 114>>

\* str::to_uppercase, of ASCII strings
ToUpper(str) ==
    [i \in 1..Len(str) |->
        IF str[i] >= 97 /\ str[i] <= 122 THEN str[i] - 32 ELSE str[i]]

\* str::replace from position i on: the occurrences of from, left to right
\* and not overlapping, replaced by to
RECURSIVE ReplaceFrom(_, _, _, _)
ReplaceFrom(str, i, from, to) ==
    IF i > Len(str) THEN <<>>
    ELSE IF MatchAt(str, from, i - 1)
    THEN to \o ReplaceFrom(str, i + Len(from), from, to)
    ELSE <<str[i]>> \o ReplaceFrom(str, i + 1, from, to)

Replace(str, from, to) == ReplaceFrom(str, 1, from, to)

IsDigit(c) == c >= 48 /\ c <= 57

RECURSIVE DecimalValue(_)
DecimalValue(digits) ==
    IF digits = <<>> THEN 0
    ELSE DecimalValue(SubSeq(digits, 1, Len(digits) - 1)) * 10
           + (digits[Len(digits)] - 48)

\* str::parse::<usize>: an optional + and at least one digit (the strings
\* enumerated are far from usize::MAX)
ParseUsize(str) ==
    LET digits == IF str # <<>> /\ str[1] = 43 THEN Tail(str) ELSE str
    IN  IF digits = <<>> \/ \E i \in 1..Len(digits) : ~IsDigit(digits[i])
        THEN None
        ELSE DecimalValue(digits)

\* lines 53-71: Ok(line ending) of the option given, or Err
ParseLineEnding(option) ==
    LET upper == ToUpper(option)
        Ok(value) == [ok |-> TRUE, value |-> value]
        Err == [ok |-> FALSE]
    IN  IF upper = OptLF THEN Ok(LF)
        ELSE IF upper = OptCRLF THEN Ok(CRLF)
        ELSE IF upper = OptCR THEN Ok(CR)
        ELSE IF HasPrefix(upper, OptCustom)
        THEN LET custom_ending ==
                     Replace(Replace(SubSeq(upper, 8, Len(upper)), EscapedN, LF),
                             EscapedR, CR)
             IN  IF custom_ending = <<>> THEN Err ELSE Ok(custom_ending)
        ELSE Err

\* lines 73-81
ParseEncoding(label) ==
    LET upper == ToUpper(label)
    IN  IF upper = OptUtf8 THEN "UTF-8"
        ELSE IF upper = OptGbk THEN "GBK"
        ELSE "none"

\* lines 22-90: Ok(Config) or Err(message)
from_args(a) ==
    LET size == IF Len(a) >= 4 THEN ParseUsize(a[4]) ELSE None
        le   == IF Len(a) >= 5 THEN ParseLineEnding(a[5])
                ELSE [ok |-> TRUE, value |-> DEFAULT_LINE_ENDING]
        enc  == IF Len(a) >= 6 THEN ParseEncoding(a[6]) ELSE "UTF-8"
    IN  IF Len(a) < 3 THEN [ok |-> FALSE, err |-> "usage"]
        ELSE IF Len(a) >= 4 /\ size = None THEN [ok |-> FALSE, err |-> "chunk size"]
        ELSE IF ~le.ok THEN [ok |-> FALSE, err |-> "line ending"]
        ELSE IF enc = "none" THEN [ok |-> FALSE, err |-> "encoding"]
        ELSE [ok |-> TRUE,
              output_prefix |-> a[3],
              chunk_size |-> IF Len(a) >= 4 THEN size * 1024 * 1024
                             ELSE DEFAULT_CHUNK_SIZE,
              line_ending |-> le.value,
              encoding |-> enc]

\* ExitStatus with a configuration error reported as a failure.
ExitStatusStrict ==
    IF pc = "done" THEN 0
    ELSE IF pc = "config_error" \/ pc = "failed" THEN 1
    ELSE IF pc = "panic" THEN 101
    ELSE None

\* The status the process ends with: Ok(()) from main (lines 140, 215) is 0,
\* Err is 1, a panic 101; None while it runs.
ExitStatus ==
    IF pc = "done" \/ pc = "config_error" THEN 0
    ELSE IF pc = "failed" THEN 1
    ELSE IF pc = "panic" THEN 101
    ELSE None

\* The argument lists tried: "t in out" and up to three options.
ArgProgram == <<116>>

ArgInput == <<105, 110>>

\* "0", "1", "+1", "x", ""
ArgSizes == {<<48>>, <<49>>, <<43, 49>>, <<120>>, <<>>}

ArgLineEndings ==
    {<<76, 70>>, <<108, 102>>, <<99, 114, 108, 102>>, <<67, 82>>, <<98, 111, 103, 117, 115>>, <<99, 117, 115, 116, 111, 109, 58>>,
     <<99, 117, 115, 116, 111, 109, 58, 65, 66>>, <<99, 117, 115, 116, 111, 109, 58, 97, 98>>,
     <<99, 117, 115, 116, 111, 109, 58, 92, 110>>,
     <<99, 117, 115, 116, 111, 109, 58, 92, 114, 92, 110>>}

ArgEncodings == {<<85, 84, 70, 45, 56>>, <<117, 116, 102, 45, 56>>, <<103, 98, 107>>, <<108, 97, 116, 105, 110, 49>>}

ArgLists ==
    {<<ArgProgram>>, <<ArgProgram, ArgInput>>, <<ArgProgram, ArgInput, DefaultPrefix>>}
      \cup {<<ArgProgram, ArgInput, DefaultPrefix, sz>> : sz \in ArgSizes}
      \cup {<<ArgProgram, ArgInput, DefaultPrefix, sz, le>> :
               sz \in ArgSizes, le \in ArgLineEndings}
      \cup {<<ArgProgram, ArgInput, DefaultPrefix, sz, le, enc>> :
               sz \in ArgSizes, le \in ArgLineEndings, enc \in ArgEncodings}

\* The input files tried with them; those of ASCII bytes are read under GBK too.
ArgInputs == {<<>>, UnterminatedInput, CrlfInput, <<169, 10>>, AccentInput}

IsAscii(data) == \A i \in 1..Len(data) : data[i] <= 127

InitArgs ==
    /\ args \in ArgLists
    /\ input \in ArgInputs
    /\ from_args(args).ok /\ from_args(args).encoding = "GBK" => IsAscii(input)
    /\ bufsize \in BlockSizes
    /\ line_ending = <<>>
    /\ chunk_size = 0
    /\ output_prefix = <<>>
    /\ encoding = "none"
    /\ pos = 0
    /\ current_chunk = <<>>
    /\ chunk_number = 1
    /\ last_newline_pos = 0
    /\ total_bytes = 0
    /\ pc = "start"
    /\ emit_log = <<>>

\* lines 136-142: the error is reported and main returns Ok(())
ConfigError ==
    /\ pc = "start"
    /\ ~from_args(args).ok
    /\ pc' = "config_error"
    /\ UNCHANGED <<config, pos, current_chunk, chunk_number, last_newline_pos,
                   total_bytes, emit_log>>

\* lines 136-156: the configuration is taken and the input file opened;
\* File::open's error ends the run
Configure(opened) ==
    /\ pc = "start"
    /\ from_args(args).ok
    /\ output_prefix' = from_args(args).output_prefix
    /\ chunk_size' = from_args(args).chunk_size
    /\ line_ending' = from_args(args).line_ending
    /\ encoding' = from_args(args).encoding
    /\ pc' = IF opened THEN "loop" ELSE "failed"
    /\ UNCHANGED <<input, bufsize, args, pos, current_chunk, chunk_number,
                   last_newline_pos, total_bytes, emit_log>>

NextArgs ==
    \/ ConfigError
    \/ \E opened \in BOOLEAN : Configure(opened)
    \/ ReadError
    \/ LoopExit
    \/ AppendPanic
    \/ BlockNoCut
    \/ CutPanic
    \/ \E ok \in BOOLEAN : BlockCut(ok)
    \/ \E ok \in BOOLEAN : Flush(ok)

SpecArgs == InitArgs /\ [][NextArgs]_vars

(***************************************************************************)
(* What the claims speak of.                                               *)
(***************************************************************************)
Last(s) == s[Len(s)]

\* The bytes of the chunks handed to the emitter by calls lo..hi, in order.
RECURSIVE EmittedBytes(_, _)
EmittedBytes(log, k) ==
    IF k = 0 THEN <<>> ELSE EmittedBytes(log, k - 1) \o log[k].data

\* The bytes of the line ending: LF, CR and CRLF are ASCII, one byte each.
LineEndingBytes == line_ending

EndsWith(data, suffix) ==
    /\ Len(data) >= Len(suffix)
    /\ SubSeq(data, Len(data) - Len(suffix) + 1, Len(data)) = suffix

\* data has an occurrence of pat somewhere
Occurs(data, pat) ==
    \E k \in 0..(Len(data) - Len(pat)) : SubSeq(data, k + 1, k + Len(pat)) = pat

\* C1: when the run ends normally, the chunks handed to the emitter, put
\* together in index order, are the input byte for byte.
C1_RoundTrip ==
    pc = "done" => EmittedBytes(emit_log, Len(emit_log)) = input

\* A finished run with a cut that carried bytes over and a final flush.
C1_Witness ==
    /\ pc = "done"
    /\ Len(emit_log) >= 2
    /\ emit_log[1].by = "cut"
    /\ Len(emit_log[1].data) < Len(emit_log[1].acc)
    /\ Last(emit_log).by = "flush"

\* C2: every chunk handed to the emitter, other than the last one, ends with
\* the configured line ending.
C2_LineIntegrity ==
    \A i \in 1..(Len(emit_log) - 1) : EndsWith(emit_log[i].data, LineEndingBytes)

\* C3: the indices handed to the emitter are 1, 2, ..., N in call order.
C3_IndexMonotonic ==
    \A i \in 1..Len(emit_log) : emit_log[i].index = i

\* Three calls, the last one the end-of-stream flush.
C3_Witness ==
    /\ Len(emit_log) >= 3
    /\ emit_log[1].by = "cut"
    /\ Last(emit_log).by = "flush"
    /\ Last(emit_log).index = Len(emit_log)

\* C4 as claimed: every chunk handed to the emitter, other than the last
\* one, has at least chunk_size bytes.
C4_ThresholdMinimum ==
    \A i \in 1..(Len(emit_log) - 1) : Len(emit_log[i].data) >= chunk_size

\* C4 as amended: every chunk emitted before the last one is emitted by a
\* threshold cut, and a threshold cut is made only of an accumulated chunk
\* that has reached chunk_size bytes; the chunk cut off is a non-empty prefix
\* of that accumulated chunk, which may be shorter than chunk_size.
C4_CutOnlyWhenReached ==
    \A i \in 1..Len(emit_log) :
        /\ i < Len(emit_log) => emit_log[i].by = "cut"
        /\ emit_log[i].by = "cut" =>
              /\ Len(emit_log[i].acc) >= chunk_size
              /\ Len(emit_log[i].data) >= 1
              /\ Len(emit_log[i].data) <= Len(emit_log[i].acc)
              /\ emit_log[i].data =
                    SubSeq(emit_log[i].acc, 1, Len(emit_log[i].data))

\* A cut that emitted fewer than chunk_size bytes of a chunk that had reached it.
C4_Witness ==
    /\ Len(emit_log) >= 2
    /\ emit_log[1].by = "cut"
    /\ emit_log[1].ok
    /\ Len(emit_log[1].data) < chunk_size
    /\ Len(emit_log[1].acc) >= chunk_size

\* The bytes a cut left in the accumulated chunk.
Remainder(call) == SubSeq(call.acc, Len(call.data) + 1, Len(call.acc))

\* Valid UTF-8 without a byte order mark and without U+FFFD.
WellFormed(data) ==
    /\ ~HasPrefix(data, <<239, 187, 191>>)
    /\ ~HasPrefix(data, <<255, 254>>)
    /\ ~HasPrefix(data, <<254, 255>>)
    /\ \A k \in 1..Len(Decode(data)) : Decode(data)[k] # REPLACEMENT

\* C5 as claimed: a threshold cut emits the shortest prefix of the accumulated
\* chunk that ends with the line ending and has at least chunk_size bytes: no
\* shorter prefix is one.
C5_MinimalCut ==
    \A i \in 1..Len(emit_log) :
        (emit_log[i].by = "cut" /\ emit_log[i].ok) =>
            ~\E k \in 1..(Len(emit_log[i].data) - 1) :
                /\ k >= chunk_size
                /\ EndsWith(SubSeq(emit_log[i].acc, 1, k), LineEndingBytes)

\* C5 as amended: a threshold cut of a well-formed accumulated chunk is made
\* at the chunk's last line boundary: the chunk emitted ends with the line
\* ending and the bytes left behind hold no line ending.
C5_CutAtLastBoundary ==
    \A i \in 1..Len(emit_log) :
        (emit_log[i].by = "cut" /\ WellFormed(emit_log[i].acc)) =>
            /\ EndsWith(emit_log[i].data, LineEndingBytes)
            /\ ~Occurs(Remainder(emit_log[i]), LineEndingBytes)

\* A cut at the last boundary although an earlier one was at or past chunk_size.
C5_Witness ==
    /\ Len(emit_log) >= 1
    /\ emit_log[1].by = "cut"
    /\ emit_log[1].ok
    /\ WellFormed(emit_log[1].acc)
    /\ ~Occurs(Remainder(emit_log[1]), LineEndingBytes)
    /\ \E k \in 1..(Len(emit_log[1].data) - 1) :
           /\ k >= chunk_size
           /\ EndsWith(SubSeq(emit_log[1].acc, 1, k), LineEndingBytes)

\* The three-line scenario: threshold 100, LF, blocks of BUFFER_SIZE.
Scenario ==
    /\ input = ScenarioInput
    /\ chunk_size = 100
    /\ line_ending = LF
    /\ bufsize = BUFFER_SIZE

\* C6 as claimed: the scenario ends with two chunks, "a\n" + 200 * "b" + "\n"
\* and "c\n".
C6_ScenarioTwoChunks ==
    (Scenario /\ pc = "done") =>
        /\ Len(emit_log) = 2
        /\ emit_log[1].data = SubSeq(ScenarioInput, 1, 203)
        /\ emit_log[2].data = <<99, 10>>

\* C6 as amended: the scenario ends with one chunk, the whole input, cut at
\* the last line ending of the one block read.
C6_ScenarioOneChunk ==
    (Scenario /\ pc = "done") =>
        /\ Len(emit_log) = 1
        /\ emit_log[1].data = ScenarioInput
        /\ emit_log[1].by = "cut"
        /\ emit_log[1].index = 1

C6_Witness ==
    /\ Scenario
    /\ pc = "done"
    /\ Len(emit_log) = 1
    /\ current_chunk = <<>>

\* The unterminated-line example: "x\ny", a large threshold, LF.
C7_Example ==
    (input = UnterminatedInput /\ chunk_size = 100 /\ line_ending = LF
       /\ pc = "done") =>
        /\ Len(emit_log) = 1
        /\ emit_log[1].data = UnterminatedInput

\* C7: a read that yields zero bytes (it did not fail) with a non-empty chunk
\* makes one call of the emitter, with the whole chunk whatever its size, and
\* ends the run; nothing is read or emitted after the run has ended.
C7_EndOfStreamFlush ==
    /\ []C7_Example
    /\ [][(pc = "loop" /\ n = 0 /\ current_chunk # <<>> /\ ~ReadError) =>
            /\ emit_log' = Append(emit_log, Last(emit_log'))
            /\ Last(emit_log').data = current_chunk
            /\ Last(emit_log').by = "flush"
            /\ Last(emit_log').index = chunk_number
            /\ pos' = pos
            /\ pc' = IF Last(emit_log').ok THEN "done" ELSE "failed"]_vars
    /\ [][pc = "loop"]_vars

\* A flushed last chunk that ends in an unterminated line after a line ending.
C7_Witness ==
    /\ pc = "done"
    /\ Len(emit_log) >= 1
    /\ Last(emit_log).by = "flush"
    /\ Occurs(Last(emit_log).data, LineEndingBytes)
    /\ ~EndsWith(Last(emit_log).data, LineEndingBytes)

\* C8: an empty input ends the run with no call of the emitter, and a read
\* that yields zero bytes (it did not fail) with an empty chunk ends the run
\* without calling it.
C8_EmptyInput ==
    /\ [](input = <<>> => emit_log = <<>>)
    /\ [][(pc = "loop" /\ n = 0 /\ current_chunk = <<>> /\ ~ReadError) =>
            (emit_log' = emit_log /\ pc' = "done")]_vars

C8_Witness ==
    /\ input = <<>>
    /\ pc = "done"
    /\ emit_log = <<>>

\* C9: the run never aborts on what the locator returns.  The run is in
\* "panic" exactly after a turn whose append position was past the block
\* read (line 175) or whose cut position was past the chunk (line 184).
C9_NeverAborts == pc # "panic"

\* C10: a failed call of the emitter ends the run as failed at once; nothing
\* is read or emitted after it, the failed call is the last one and every
\* call before it, which succeeded, stays as it was.
C10_EmitFailureFatal ==
    /\ [][(emit_log' # emit_log /\ ~Last(emit_log').ok) => pc' = "failed"]_vars
    /\ [][pc # "failed"]_vars
    /\ [][emit_log' # emit_log =>
            /\ Len(emit_log') = Len(emit_log) + 1
            /\ SubSeq(emit_log', 1, Len(emit_log)) = emit_log]_vars
    /\ [](\A i \in 1..Len(emit_log) :
            /\ emit_log[i].index = i
            /\ ~emit_log[i].ok => (pc = "failed" /\ i = Len(emit_log)))

\* The second chunk's emit failed after the first one was written.
C10_Witness ==
    /\ pc = "failed"
    /\ Len(emit_log) = 2
    /\ emit_log[1].ok
    /\ ~emit_log[2].ok

\* C12 as claimed: a threshold check on a chunk without a line ending emits
\* nothing, and a chunk is cut only at the end of a line ending: every chunk
\* cut was cut off a chunk that holds the line ending, and ends with it.
C12_NeverCutMidLine ==
    \A i \in 1..Len(emit_log) :
        (emit_log[i].by = "cut" /\ emit_log[i].ok) =>
            /\ Occurs(emit_log[i].acc, LineEndingBytes)
            /\ EndsWith(emit_log[i].data, LineEndingBytes)

\* C13 as claimed, its safety half: a run that has left the loop without a
\* failed read or emit has ended normally, and every byte of the input was
\* emitted.
C13_EndsWithAllEmitted ==
    (pc # "loop" /\ pc # "failed") =>
        /\ pc = "done"
        /\ EmittedBytes(emit_log, Len(emit_log)) = input

\* The offset at which the rightmost occurrence of pat in data starts.
RightmostStart(data, pat) ==
    CHOOSE k \in 0..(Len(data) - Len(pat)) :
        /\ SubSeq(data, k + 1, k + Len(pat)) = pat
        /\ \A j \in (k + 1)..(Len(data) - Len(pat)) :
               SubSeq(data, j + 1, j + Len(pat)) # pat

\* The locator's result over the block read.
LocatorOnBlock == find_last_line_ending(buffer, line_ending)

\* C15 as claimed: over a well-formed block the locator returns the offset of
\* the end of the rightmost line ending, and none exactly when there is none.
C15_LocatorEnd ==
    (pc = "loop" /\ n > 0 /\ WellFormed(buffer)) =>
        /\ LocatorOnBlock = None <=> ~Occurs(buffer, LineEndingBytes)
        /\ LocatorOnBlock # None =>
               LocatorOnBlock
                 = RightmostStart(buffer, LineEndingBytes) + Len(LineEndingBytes)

\* C15 as amended: over a well-formed block the locator returns the offset
\* at which the rightmost line ending starts, and none exactly when the block
\* holds no line ending.
C15_LocatorStart ==
    (pc = "loop" /\ n > 0 /\ WellFormed(buffer)) =>
        /\ LocatorOnBlock = None <=> ~Occurs(buffer, LineEndingBytes)
        /\ LocatorOnBlock # None =>
               LocatorOnBlock = RightmostStart(buffer, LineEndingBytes)

\* A block with a two-byte character before the last of two line endings.
C15_Witness ==
    /\ pc = "loop"
    /\ buffer = AccentInput
    /\ line_ending = LF
    /\ LocatorOnBlock = 5

\* C16 as claimed: a run that ended normally reports as many bytes as it read.
C16_TotalBytes == pc = "done" => ReportedBytes = pos

\* C17 as claimed: a run that ended normally reports as many chunks as it
\* handed to the emitter.
C17_ReportedChunks == pc = "done" => ReportedChunks = Len(emit_log)

\* C18: every chunk handed to the emitter has at least one byte.
C18_NoEmptyChunk ==
    \A i \in 1..Len(emit_log) : Len(emit_log[i].data) >= 1

\* With threshold 0: a cut and then the flush.
C18_Witness ==
    /\ chunk_size = 0
    /\ Len(emit_log) >= 2
    /\ emit_log[1].by = "cut"
    /\ Last(emit_log).by = "flush"
    /\ Len(emit_log[1].data) >= 1

\* a sorts before b, character by character
LexLess(a, b) ==
    \E k \in 1..(Len(b)) :
        /\ \A i \in 1..(k - 1) : i <= Len(a) /\ a[i] = b[i]
        /\ \/ k = Len(a) + 1
           \/ k <= Len(a) /\ a[k] < b[k]

\* C14 as claimed: the names of two chunks differ and sort in the order of
\* their indices; stated of the last call and every call before it, which
\* covers every pair as the log grows by one call at a time.
C14_NamesSortable ==
    \A i \in 1..(Len(emit_log) - 1) :
        /\ emit_log[i].name # Last(emit_log).name
        /\ LexLess(emit_log[i].name, Last(emit_log).name)

\* A decimal number, with or without a + before it.
IsNumeric(str) ==
    \E k \in {0, 1} :
        /\ Len(str) > k
        /\ k = 1 => str[1] = 43
        /\ \A i \in (k + 1)..Len(str) : IsDigit(str[i])

\* The line ending option is none of LF, CRLF, CR and custom:<literal>, or
\* it is custom: with an empty literal.
BadLineEndingOption(str) ==
    /\ ToUpper(str) \notin {OptLF, OptCRLF, OptCR}
    /\ \/ ~HasPrefix(ToUpper(str), OptCustom)
       \/ ToUpper(str) = OptCustom

\* The argument lists C11 names: too few arguments, a chunk size that is no
\* number, an unknown or empty line ending option, an unknown encoding.
ArgsRejected(a) ==
    \/ Len(a) < 3
    \/ Len(a) >= 4 /\ ~IsNumeric(a[4])
    \/ Len(a) >= 5 /\ BadLineEndingOption(a[5])
    \/ Len(a) >= 6 /\ ToUpper(a[6]) \notin {OptUtf8, OptGbk}

\* C11: arguments of the kinds named end the run as a configuration error;
\* a run ended so has read nothing, emitted nothing and exits with status 0,
\* and nothing happens after it.
C11_ConfigErrorNoEffect ==
    /\ [][(pc = "start" /\ ArgsRejected(args)) => pc' = "config_error"]_vars
    /\ [](pc = "config_error" =>
            /\ ArgsRejected(args)
            /\ ExitStatus = 0
            /\ pos = 0
            /\ current_chunk = <<>>
            /\ emit_log = <<>>)
    /\ [][pc # "config_error"]_vars

\* A run ended by an unknown encoding after a good size and line ending.
C11_Witness ==
    /\ pc = "config_error"
    /\ Len(args) = 6
    /\ from_args(args).err = "encoding"
    /\ input # <<>>
    /\ ExitStatus = 0

\* The option is custom:<literal>, in any case of the word custom.
IsCustom(a) ==
    /\ Len(a) >= 5
    /\ Len(a[5]) >= 7
    /\ ToUpper(SubSeq(a[5], 1, 7)) = OptCustom

\* The literal as given.
CustomLiteral(a) == SubSeq(a[5], 8, Len(a[5]))

\* The literal with \n and \r replaced, every other character kept.
Unescaped(literal) == Replace(Replace(literal, EscapedN, LF), EscapedR, CR)

\* C19 as claimed: with custom:<literal> the line ending configured is the
\* literal with its escapes replaced, and an empty literal is an error.
C19_CustomLineEnding ==
    (IsCustom(args) /\ pc # "start") =>
        /\ CustomLiteral(args) = <<>> => pc = "config_error"
        /\ pc # "config_error" => line_ending = Unescaped(CustomLiteral(args))
=============================================================================
